---- MODULE Spec2Model ----
(***************************************************************************)
(* Model of BacktestBase (src/backtest_base.py): the cash / units / trades *)
(* ledger and its order operations.                                        *)
(*                                                                         *)
(* Number representation.  Money (self.amount, self.ftc, order amounts) is *)
(* kept in cents, closing prices in whole currency units, self.ptc in      *)
(* percent.  With these units (units * price) * (1 + ptc) is the integer   *)
(* units * close * (100 + ptc) cents, so the arithmetic of the handlers is  *)
(* exact; binary floating-point rounding is not represented.               *)
(***************************************************************************)
EXTENDS Integers, Sequences, FiniteSets, TLC

\* ---------------------------------------------------------------- bounds
MaxCalls == 2

\* ------------------------------------------------------------ inputs
\* Python's None / a supplied value, for the optional arguments.
None == << >>
Some(x) == << x >>

\* amount=10000 of the construction in the module's main block.
InitialAmount == 10000

\* Close prices of the loaded series, one entry per bar (whole currency units).
CloseSeries == { << 100 >>, << 100, 110 >> }

\* The dates of the bars (str(index[bar])[:10]).
DateOf(i) == << "2019-01-01", "2019-01-02" >>[i]

\* ftc (cents), ptc (percent), verbose as passed to the constructor;
\* the defaults are ftc=0.0, ptc=0.0, verbose=True.
Configs ==
  { [ftc |-> 0,   ptc |-> 0, verbose |-> TRUE],
    [ftc |-> 0,   ptc |-> 0, verbose |-> FALSE],
    [ftc |-> 100, ptc |-> 1, verbose |-> TRUE],
    [ftc |-> 100, ptc |-> 1, verbose |-> FALSE] }

UnitsInputs == { None, Some(10), Some(100) }
AmountInputs == { None, Some(-15000), Some(5000), Some(25000) }

\* The (units, amount) argument pairs of the order calls: neither, either
\* one, and both.
OrderInputs ==
  { o \in UnitsInputs \X AmountInputs :
      o[1] = None \/ o[2] = None \/ o = << Some(10), Some(25000) >> }

VARIABLES
  data,            \* self.data: sequence of [date, close]
  initial_amount,  \* self.initial_amount (cents)
  amount,          \* self.amount (cents)
  ftc,             \* self.ftc (cents)
  ptc,             \* self.ptc (percent)
  units,           \* self.units
  trades,          \* self.trades
  verbose,         \* self.verbose
  call,            \* the last call made on the object and how it ended
  calls,           \* number of calls made on the object
  invoked,         \* number of buy / sell / close_out calls made
  rejected         \* number of those that raised before touching the ledger

vars == << data, initial_amount, amount, ftc, ptc, units, trades, verbose,
           call, calls, invoked, rejected >>

config == << data, initial_amount, ftc, ptc, verbose >>
ledger == << amount, units, trades >>

Ledger == [amount |-> amount, units |-> units, trades |-> trades]

BarInputs == -(Len(data) + 1) .. Len(data)

\* ------------------------------------------------------------ helpers
Line(kind, date, n, value) ==
  [kind |-> kind, date |-> date, n |-> n, value |-> value]

\* DataFrame built by get_data: one row per bar.
GetData(closes) ==
  [i \in 1 .. Len(closes) |-> [date |-> DateOf(i), close |-> closes[i]]]

\* Positional indexing of pandas (index[bar], iloc[bar]): 0-based, a negative
\* position counts from the end, anything else raises IndexError.
Position(bar, n) ==
  IF bar >= 0 /\ bar < n THEN bar + 1
  ELSE IF bar < 0 /\ bar >= -n THEN n + bar + 1
  ELSE 0

\* get_date_price(bar): the date and the price (cents) of the bar.
get_date_price(bar) ==
  LET pos == Position(bar, Len(data)) IN
  IF pos = 0
    THEN [raised |-> "IndexError", date |-> "", price |-> 0]
    ELSE [raised |-> "none", date |-> data[pos].date,
          price |-> data[pos].close * 100]

\* Variant: the quotient rounded toward minus infinity (math.floor).
IntDiv_Floor(x, y) == x \div y

\* Python's int(x / y) for y > 0: truncation toward zero.
IntDiv(x, y) == IF x >= 0 THEN x \div y ELSE -((-x) \div y)

\* "if units is None: units = int(amount / price)".
OrderUnits(order_units, order_amount, price) ==
  IF order_units = None THEN IntDiv(order_amount[1], price)
  ELSE order_units[1]

\* Variant: the proportional cost taken with the sign of the sell side.
BuyCash_MinusPtc(cash, u, price) ==
  cash - ((((u * price) * (100 - ptc)) \div 100) + ftc)

\* self.amount -= (units * price) * (1 + self.ptc) + self.ftc
BuyCash(cash, u, price) ==
  cash - ((((u * price) * (100 + ptc)) \div 100) + ftc)

\* Variant: the fixed cost added to the proceeds instead of deducted.
SellCash_AddsFtc(cash, u, price) ==
  cash + ((((u * price) * (100 - ptc)) \div 100) + ftc)

\* self.amount += (units * price) * (1 - self.ptc) - self.ftc
SellCash(cash, u, price) ==
  cash + ((((u * price) * (100 - ptc)) \div 100) - ftc)

\* Variant: the close-out charged like a sell order.
CloseOutCash_WithCosts(cash, held, price) ==
  cash + ((((held * price) * (100 - ptc)) \div 100) - ftc)

\* self.amount += self.units * price
CloseOutCash(cash, held, price) == cash + held * price

\* self.units += units
BuyUnits(held, u) == held + u

\* Variant: the sold units added to the holding.
SellUnits_Adds(held, u) == held + u

\* self.units -= units
SellUnits(held, u) == held - u

\* self.units = 0
CloseOutUnits(held) == 0

\* self.trades += 1, in each of the three handlers.
BuyTrades(t) == t + 1
SellTrades(t) == t + 1

\* Variant: the close-out not counted as a trade.
CloseOutTrades_NoCount(t) == t

CloseOutTrades(t) == t + 1

\* Round num / den (den > 0) to the nearest integer, ties to even: the
\* rounding of "{:.2f}".format on a value counted in hundredths.
RoundHalfEven(num, den) ==
  LET q == num \div den
      r == num % den
  IN IF 2 * r < den THEN q
     ELSE IF 2 * r > den THEN q + 1
     ELSE IF q % 2 = 0 THEN q ELSE q + 1

\* perf = (self.amount - self.initial_amount) / self.initial_amount * 100,
\* as printed with two decimals: the result is in hundredths of a percent.
\* initial is a whole number of currency units, so
\* (cash - initial) * 10000 / initial = (cash - initial) * 100 / (initial / 100).
Perf(cash, initial) ==
  RoundHalfEven((cash - initial) * 100, initial \div 100)

\* print_balance(bar): the price lookup, then the balance line.
print_balance(bar, cash) ==
  LET gp == get_date_price(bar) IN
  IF gp.raised # "none" THEN [raised |-> gp.raised, out |-> << >>]
  ELSE [raised |-> "none", out |-> << Line("balance", gp.date, 0, cash) >>]

\* print_net_wealth(bar): its first statement calls self.get_data_price, a
\* name the class does not define, so the call raises AttributeError before
\* anything is computed or printed.
print_net_wealth(bar, cash, held) ==
  [raised |-> "AttributeError", out |-> << >>, net_wealth |-> None]

\* The verbose report of place_buy_order / place_sell_order.
OrderReport(bar, date, u, price, cash, held) ==
  LET first == << Line("selling", date, u, price) >>
      pb == print_balance(bar, cash)
      pn == print_net_wealth(bar, cash, held)
  IN IF pb.raised # "none"
       THEN [raised |-> pb.raised, out |-> first]
       ELSE [raised |-> pn.raised, out |-> first \o pb.out \o pn.out]

Call(op, bar, ou, oa, raised, traded, ret, out) ==
  [op |-> op, bar |-> bar, units |-> ou, amount |-> oa, raised |-> raised,
   traded |-> traded, ret |-> ret, out |-> out, pre |-> Ledger]

NoCall == [op |-> "none", bar |-> 0, units |-> None, amount |-> None,
           raised |-> "none", traded |-> None, ret |-> None, out |-> << >>,
           pre |-> [amount |-> 0, units |-> 0, trades |-> 0]]

\* ------------------------------------------------------------ Init
Init ==
  /\ \E closes \in CloseSeries : data = GetData(closes)
  /\ \E c \in Configs : ftc = c.ftc /\ ptc = c.ptc /\ verbose = c.verbose
  /\ initial_amount = InitialAmount * 100
  /\ amount = InitialAmount * 100
  /\ units = 0
  /\ trades = 0
  /\ call = NoCall
  /\ calls = 0
  /\ invoked = 0
  /\ rejected = 0

\* ------------------------------------------------------------ actions
\* The driver makes at most MaxCalls calls.
Budget == calls < MaxCalls

Record(c) == call' = c /\ calls' = calls + 1

\* An order call that raises before the ledger is touched.
Reject(c) ==
  /\ Record(c)
  /\ invoked' = invoked + 1
  /\ rejected' = rejected + 1
  /\ UNCHANGED << config, ledger >>

place_buy_order(bar, order_units, order_amount) ==
  LET gp == get_date_price(bar) IN
  /\ Budget
  /\ IF gp.raised # "none"
       THEN Reject(Call("buy", bar, order_units, order_amount, gp.raised,
                        None, None, << >>))
     ELSE IF order_units = None /\ order_amount = None
       THEN Reject(Call("buy", bar, order_units, order_amount, "TypeError",
                        None, None, << >>))
     ELSE
       LET u == OrderUnits(order_units, order_amount, gp.price)
           cash == BuyCash(amount, u, gp.price)
           held == BuyUnits(units, u)
           rep == IF verbose
                    THEN OrderReport(bar, gp.date, u, gp.price, cash, held)
                    ELSE [raised |-> "none", out |-> << >>]
       IN /\ amount' = cash
          /\ units' = held
          /\ trades' = BuyTrades(trades)
          /\ Record(Call("buy", bar, order_units, order_amount, rep.raised,
                         Some(u), None, rep.out))
          /\ invoked' = invoked + 1
          /\ UNCHANGED << config, rejected >>

place_sell_order(bar, order_units, order_amount) ==
  LET gp == get_date_price(bar) IN
  /\ Budget
  /\ IF gp.raised # "none"
       THEN Reject(Call("sell", bar, order_units, order_amount, gp.raised,
                        None, None, << >>))
     ELSE IF order_units = None /\ order_amount = None
       THEN Reject(Call("sell", bar, order_units, order_amount, "TypeError",
                        None, None, << >>))
     ELSE
       LET u == OrderUnits(order_units, order_amount, gp.price)
           cash == SellCash(amount, u, gp.price)
           held == SellUnits(units, u)
           rep == IF verbose
                    THEN OrderReport(bar, gp.date, u, gp.price, cash, held)
                    ELSE [raised |-> "none", out |-> << >>]
       IN /\ amount' = cash
          /\ units' = held
          /\ trades' = SellTrades(trades)
          /\ Record(Call("sell", bar, order_units, order_amount, rep.raised,
                         Some(u), None, rep.out))
          /\ invoked' = invoked + 1
          /\ UNCHANGED << config, rejected >>

close_out(bar) ==
  LET gp == get_date_price(bar) IN
  /\ Budget
  /\ IF gp.raised # "none"
       THEN Reject(Call("close", bar, None, None, gp.raised, None, None,
                        << >>))
     ELSE
       LET cash == CloseOutCash(amount, units, gp.price)
           held == CloseOutUnits(units)
           t == CloseOutTrades(trades)
           head == IF verbose
                     THEN << Line("inventory", gp.date, held, gp.price),
                             Line("sep", "", 0, 0) >>
                     ELSE << >>
           summary == << Line("final", "", 0, cash),
                         Line("perf", "", 0, Perf(cash, initial_amount)),
                         Line("trades", "", t, 0),
                         Line("sep", "", 0, 0) >>
       IN /\ amount' = cash
          /\ units' = held
          /\ trades' = t
          /\ Record(Call("close", bar, None, None, "none", Some(units),
                         None, head \o summary))
          /\ invoked' = invoked + 1
          /\ UNCHANGED << config, rejected >>

\* A direct call of print_net_wealth.
PrintNetWealth(bar) ==
  LET pn == print_net_wealth(bar, amount, units) IN
  /\ Budget
  /\ Record(Call("net_wealth", bar, None, None, pn.raised, None,
                 pn.net_wealth, pn.out))
  /\ UNCHANGED << config, ledger, invoked, rejected >>

\* A direct call of print_balance.
PrintBalance(bar) ==
  LET pb == print_balance(bar, amount) IN
  /\ Budget
  /\ Record(Call("balance", bar, None, None, pb.raised, None, None, pb.out))
  /\ UNCHANGED << config, ledger, invoked, rejected >>

\* A direct call of get_date_price.
GetDatePrice(bar) ==
  LET gp == get_date_price(bar) IN
  /\ Budget
  /\ Record(Call("price", bar, None, None, gp.raised, None,
                 IF gp.raised = "none" THEN << gp.date, gp.price >> ELSE None,
                 << >>))
  /\ UNCHANGED << config, ledger, invoked, rejected >>

Next ==
  \/ \E bar \in BarInputs, o \in OrderInputs :
       place_buy_order(bar, o[1], o[2])
  \/ \E bar \in BarInputs, o \in OrderInputs :
       place_sell_order(bar, o[1], o[2])
  \/ \E bar \in BarInputs : close_out(bar)
  \/ \E bar \in BarInputs : PrintNetWealth(bar)
  \/ \E bar \in BarInputs : PrintBalance(bar)
  \/ \E bar \in BarInputs : GetDatePrice(bar)

Spec == Init /\ [][Next]_vars

TypeOK ==
  /\ amount \in Int /\ units \in Int /\ trades \in Nat
  /\ calls \in 0 .. MaxCalls /\ invoked \in 0 .. calls
  /\ rejected \in 0 .. invoked


\* ------------------------------------------------------------ properties
\* What the statements below call a valid bar, and its price in cents.
ValidBar(bar) == bar \in 0 .. Len(data) - 1
PriceOf(bar) == data[bar + 1].close * 100
DateAt(bar) == data[bar + 1].date

IsOrder == call.op \in {"buy", "sell"}
OrderAtValidBar(op) == call.op = op /\ ValidBar(call.bar)

\* The quotient a / p (p > 0) rounded toward minus infinity, and toward zero.
FloorQuot(a, p) == a \div p
TruncQuot(a, p) == IF a >= 0 THEN a \div p ELSE -((-a) \div p)

ReportLine(kind) == CHOOSE l \in { call.out[i] : i \in DOMAIN call.out } : l.kind = kind
HasLine(kind) == \E i \in DOMAIN call.out : call.out[i].kind = kind

\* C1: a buy or sell call with neither or with both of units / amount is
\* rejected with an error and leaves cash, units_held and trade_count as
\* they were.
C1_RejectsNeitherOrBoth ==
  (IsOrder /\ ((call.units = None) <=> (call.amount = None)))
    => (call.raised # "none" /\ Ledger = call.pre)

\* The effect of buy(bar, units=u) at a valid bar: cash goes down by
\* u*price*(1+proportional_cost) + fixed_cost, units_held up by u.
C2_BuyEffect ==
  (OrderAtValidBar("buy") /\ call.units # None) =>
    LET u == call.units[1]
        p == PriceOf(call.bar)
    IN /\ 100 * (call.pre.amount - amount) = u * p * (100 + ptc) + 100 * ftc
       /\ units = call.pre.units + u

\* The worked example: cash 10000, u=10, price 100, fixed_cost 1,
\* proportional_cost 0.01.
C2_ExampleCase ==
  /\ OrderAtValidBar("buy") /\ call.units = Some(10)
  /\ PriceOf(call.bar) = 10000 /\ call.pre.amount = 1000000
  /\ call.pre.units = 0 /\ ftc = 100 /\ ptc = 1

\* C2 as stated: buy(bar, units=u) at a valid bar takes
\* u*price*(1+proportional_cost) + fixed_cost from cash and adds u to
\* units_held, and in the worked example the cash becomes 8888.
C2_Original ==
  C2_BuyEffect /\ (C2_ExampleCase => amount = 888800 /\ units = 10)

\* C2 amended: the same effect of buy(bar, units=u), no check on the sign of
\* the resulting cash, and in the example the cash becomes 8989.
C2_Amended ==
  C2_BuyEffect /\ (C2_ExampleCase => amount = 898900 /\ units = 10)

C2_Witness == C2_ExampleCase /\ amount = 898900 /\ units = 10 /\ trades = 1

\* C3: sell(bar, units=u) at a valid bar adds
\* u*price*(1-proportional_cost) - fixed_cost to cash and takes u from
\* units_held, whatever the sign of the resulting holding.
C3_SellEffect ==
  (OrderAtValidBar("sell") /\ call.units # None) =>
    LET u == call.units[1]
        p == PriceOf(call.bar)
    IN /\ 100 * (amount - call.pre.amount) = u * p * (100 - ptc) - 100 * ftc
       /\ units = call.pre.units - u

C3_Witness ==
  /\ OrderAtValidBar("sell") /\ call.units = Some(10)
  /\ call.pre.units = 0 /\ units = -10 /\ ftc = 100 /\ ptc = 1
  /\ 100 * (amount - call.pre.amount) = 10 * PriceOf(call.bar) * 99 - 10000

\* C4: closeOut at a valid bar completes with units_held = 0, adds exactly
\* units_held_before * price to cash without any cost, and reports
\* (cash - initial_cash) / initial_cash * 100 computed on the resulting cash;
\* from cash 8888 with 10 units at price 110 and initial cash 10000 that is
\* cash 9988 and performance -0.12.
C4_CloseOut ==
  OrderAtValidBar("close") =>
       /\ call.raised = "none"
       /\ units = 0
       /\ amount = call.pre.amount + call.pre.units * PriceOf(call.bar)
       /\ trades = call.pre.trades + 1
       /\ ReportLine("perf").value =
            RoundHalfEven((amount - initial_amount) * 100,
                          initial_amount \div 100)
       /\ ReportLine("final").value = amount
       /\ CloseOutCash(888800, 10, 11000) = 998800
       /\ Perf(998800, 1000000) = -12

C4_Witness ==
  /\ OrderAtValidBar("close") /\ PriceOf(call.bar) = 11000
  /\ call.pre.units = 10 /\ call.pre.amount = 898900
  /\ ftc = 100 /\ ptc = 1
  /\ units = 0 /\ amount = 1008900 /\ ReportLine("perf").value = 89

\* Further cases of C4 that are reached: closing a short and a flat position.
C4_ShortCase == OrderAtValidBar("close") /\ call.pre.units < 0 /\ units = 0
C4_FlatCase == OrderAtValidBar("close") /\ call.pre.units = 0 /\ call.pre.trades > 0

\* C5 as stated: trade_count equals the number of buy, sell and closeOut
\* operations invoked since the ledger was created.
C5_Original == trades = invoked

\* C5 amended: trade_count equals the number of buy, sell and closeOut calls
\* invoked that did not fail at the bar lookup or at resolving the unit
\* count; each of those adds exactly one, the failed ones add nothing, and
\* cash and units_held change only inside such a call.
C5_Amended ==
  /\ [](trades = invoked - rejected)
  /\ [][ (amount' # amount \/ units' # units \/ trades' # trades)
           => /\ call'.op \in {"buy", "sell", "close"}
              /\ call'.traded # None
              /\ invoked' = invoked + 1
              /\ trades' = trades + 1 ]_vars

C5_Witness ==
  /\ invoked = 2 /\ rejected = 1 /\ trades = 1
  /\ call.op = "sell" /\ call.traded # None /\ call.pre.trades = 0

\* C6: the net-wealth operation at a valid bar completes, yields
\* units_held * price + cash and leaves the ledger unchanged.
C6_NetWealth ==
  (OrderAtValidBar("net_wealth")) =>
    /\ call.raised = "none"
    /\ call.ret = Some(units * PriceOf(call.bar) + amount)
    /\ Ledger = call.pre

C8_IndexOutOfRange ==
  (call.op = "price") =>
    IF ValidBar(call.bar)
      THEN call.raised = "none"
           /\ call.ret = << DateAt(call.bar), PriceOf(call.bar) >>
      ELSE call.raised = "IndexError" /\ call.ret = None

\* A buy or sell at a valid bar with amount and without units.
AmountOrder == IsOrder /\ ValidBar(call.bar)
                 /\ call.units = None /\ call.amount # None

\* C9 as stated: with amount and without units the unit count traded is
\* floor(amount / price), negative amounts included.
C9_Floor ==
  AmountOrder =>
    call.traded = Some(FloorQuot(call.amount[1], PriceOf(call.bar)))

\* C9 amended: with amount and without units the unit count traded is
\* amount / price truncated toward zero: floor(amount / price) for amounts
\* >= 0 (0 units for an amount below the price, with the fixed cost charged
\* and the trade counted), and -floor(-amount / price) for negative amounts.
C9_Truncates ==
  AmountOrder =>
    /\ call.traded = Some(TruncQuot(call.amount[1], PriceOf(call.bar)))
    /\ (call.amount[1] >= 0 /\ call.amount[1] < PriceOf(call.bar)) =>
         /\ call.traded = Some(0)
         /\ units = call.pre.units
         /\ amount = call.pre.amount - ftc
         /\ trades = call.pre.trades + 1

C9_Witness ==
  /\ AmountOrder /\ call.op = "buy" /\ call.amount = Some(-15000)
  /\ PriceOf(call.bar) = 10000
  /\ call.traded = Some(-1) /\ units = call.pre.units - 1

\* Also reached: an amount below the price trades 0 units at the fixed cost.
C9_ZeroUnitsCase ==
  /\ AmountOrder /\ call.amount = Some(5000) /\ call.traded = Some(0)
  /\ ftc = 100 /\ amount = call.pre.amount - 100

\* C10: a buy or sell call is atomic: a valid order at a valid bar completes
\* normally with the ledger updated and, when verbose, the balance and net
\* wealth report emitted; a call that ends in an error leaves the ledger as
\* it was.
C10_Atomic ==
  IsOrder =>
    /\ (call.raised # "none") => (Ledger = call.pre)
    /\ (ValidBar(call.bar) /\ ((call.units = None) # (call.amount = None)))
         => /\ call.raised = "none"
            /\ trades = call.pre.trades + 1
            /\ verbose => (HasLine("balance") /\ HasLine("net_wealth"))

====
